---- MODULE Spec2Model ----
(***************************************************************************)
(* Graph-based learning core of l0l1 (GraphLearningService):               *)
(* structural analysis of a SQL text, the relation store it writes to,     *)
(* the learner (analyze_and_store_query), the suggestion engine            *)
(* (get_intelligent_suggestions) and the insights scan                     *)
(* (get_workspace_insights).                                               *)
(*                                                                         *)
(* A SQL text is a string; the statement sqlparse yields for it is a       *)
(* sequence of leaf tokens [ttype, value, top], top telling whether the    *)
(* leaf is a direct child of the statement (parsed.tokens) or sits inside  *)
(* a group (Identifier, Parenthesis, Function, ...) and is seen only by    *)
(* flatten().  Whitespace leaves are left out: no code looks at them.      *)
(***************************************************************************)
EXTENDS Integers, Sequences, FiniteSets, TLC

VARIABLES
    store,      \* KnowledgeGraph: the sequence of triples <<s, p, o>>, in insertion order
    seed,       \* the process's string-hash seed (PYTHONHASHSEED): hash() and set order
    nrec,       \* number of record() calls started; also the clock of utcnow()
    recorded,   \* the arguments of the record() calls that returned, in order
    op,         \* the operation that ran last
    arg,        \* its arguments
    ret,        \* its return value
    raised,     \* whether it raised
    before,     \* the store as it was when the operation started
    memo,       \* the text and the result of the analyze call before the last one
    pending,    \* per writer: the triples of its record() call not yet appended
    fault,      \* the store call that failed during the operation, if any
    graphs,     \* the graphs the backend keeps, by workspace identifier
    workbench   \* the SQL workbench: sqlQuery, analyzeTimeout, liveAnalysis, its requests

vars == <<store, seed, nrec, recorded, op, arg, ret, raised, before, memo, pending, fault, graphs, workbench>>

----------------------------------------------------------------------------
(* Bounds of the model *)

MaxRecords == 3
MaxAnalyzeRecords == 1
MaxStoredRecords == 1
MaxFaultRecords == 1
MaxWorkspaceRecords == 2
MaxEdits == 3

HashSeeds == {0, 1}
Writers == {"w1", "w2"}

NoValue == [none |-> TRUE]
WorkspaceIds == {"production", "development"}

----------------------------------------------------------------------------
(* Sequences *)

RECURSIVE Flatten(_)
Flatten(ss) == IF ss = <<>> THEN <<>> ELSE Head(ss) \o Flatten(Tail(ss))

Range(s) == {s[i] : i \in 1..Len(s)}

Take(s, n) == SubSeq(s, 1, IF Len(s) < n THEN Len(s) ELSE n)

----------------------------------------------------------------------------
(* The lexer's output (sqlparse.parse(text)[0]) for the texts of the model. *)
(* SELECT, INSERT, ... carry the token type Keyword.DML, a subtype of       *)
(* Keyword; a word directly before "(" or next to "." is a Name; "?" is a   *)
(* Name.Placeholder.                                                        *)

Tok(tt, v, t) == [ttype |-> tt, value |-> v, top |-> t]
DML(v) == Tok("Keyword.DML", v, TRUE)
KW(v) == Tok("Keyword", v, TRUE)
KWin(v) == Tok("Keyword", v, FALSE)
NM(v) == Tok("Name", v, FALSE)
PU(v) == Tok("Punctuation", v, FALSE)
WC == Tok("Wildcard", "*", TRUE)
WCin == Tok("Wildcard", "*", FALSE)
PH == Tok("Name.Placeholder", "?", TRUE)
CMP(v) == Tok("Comparison", v, FALSE)

TxEmpty == ""
TxJunk == "???"
TxUsers == "SELECT * FROM users"
TxUsersOrders == "SELECT * FROM users JOIN orders"
TxOrdersUsers == "SELECT * FROM orders JOIN users"
TxScenario == "SELECT u.name FROM users u JOIN orders o ON u.id=o.user_id"
TxPartialCols == "SELECT u.name, o.id FROM"
TxPartialGroup == "SELECT COUNT(*) FROM orders GROUP BY"
TxMixedCase == "select * from Users"
TxWindow == "SELECT RANK() OVER (ORDER BY id) FROM users"
TxOrdered == "SELECT id, name FROM users ORDER BY id"
TxSubquery == "SELECT * FROM users WHERE id IN (SELECT user_id FROM orders)"
TxInsert == "INSERT INTO orders SELECT * FROM users"
TxSumHaving == "SELECT SUM(o.id) FROM orders o GROUP BY o.user_id HAVING SUM(o.id) > 1"
TxLeftJoin == "SELECT * FROM users LEFT JOIN orders"
TxWindowOrdered == "SELECT RANK() OVER (ORDER BY id) FROM users ORDER BY id"

\* the statements sqlparse yields for a text; none for the empty text
StatementsOf(text) ==
    CASE text = TxEmpty -> <<>>
      [] text = TxJunk -> << <<PH, PH, PH>> >>
      [] text = TxUsers -> << <<DML("SELECT"), WC, KW("FROM"), NM("users")>> >>
      [] text = TxUsersOrders ->
            << <<DML("SELECT"), WC, KW("FROM"), NM("users"), KW("JOIN"), NM("orders")>> >>
      [] text = TxOrdersUsers ->
            << <<DML("SELECT"), WC, KW("FROM"), NM("orders"), KW("JOIN"), NM("users")>> >>
      [] text = TxScenario ->
            << <<DML("SELECT"), NM("u"), PU("."), NM("name"), KW("FROM"), NM("users"),
                 NM("u"), KW("JOIN"), NM("orders"), NM("o"), KW("ON"),
                 NM("u"), PU("."), NM("id"), CMP("="), NM("o"), PU("."), NM("user_id")>> >>
      [] text = TxPartialCols ->
            << <<DML("SELECT"), NM("u"), PU("."), NM("name"), PU(","),
                 NM("o"), PU("."), NM("id"), KW("FROM")>> >>
      [] text = TxPartialGroup ->
            << <<DML("SELECT"), NM("COUNT"), PU("("), WCin, PU(")"), KW("FROM"),
                 NM("orders"), KW("GROUP BY")>> >>
      [] text = TxMixedCase ->
            << <<DML("select"), WC, KW("from"), NM("Users")>> >>
      [] text = TxWindow ->
            << <<DML("SELECT"), NM("RANK"), PU("("), PU(")"), KWin("OVER"), PU("("),
                 KWin("ORDER BY"), NM("id"), PU(")"), KW("FROM"), NM("users")>> >>
      [] text = TxOrdered ->
            << <<DML("SELECT"), NM("id"), PU(","), NM("name"), KW("FROM"), NM("users"),
                 KW("ORDER BY"), NM("id")>> >>
      [] text = TxSubquery ->
            << <<DML("SELECT"), WC, KW("FROM"), NM("users"), KWin("WHERE"), NM("id"),
                 KWin("IN"), PU("("), Tok("Keyword.DML", "SELECT", FALSE), NM("user_id"),
                 KWin("FROM"), NM("orders"), PU(")")>> >>
      [] text = TxInsert ->
            << <<DML("INSERT"), KW("INTO"), NM("orders"), DML("SELECT"), WC, KW("FROM"),
                 NM("users")>> >>
      [] text = TxSumHaving ->
            << <<DML("SELECT"), NM("SUM"), PU("("), NM("o"), PU("."), NM("id"), PU(")"),
                 KW("FROM"), NM("orders"), NM("o"), KW("GROUP BY"), NM("o"), PU("."),
                 NM("user_id"), KW("HAVING"), NM("SUM"), PU("("), NM("o"), PU("."),
                 NM("id"), PU(")"), CMP(">"), Tok("Number.Integer", "1", FALSE)>> >>
      [] text = TxLeftJoin ->
            << <<DML("SELECT"), WC, KW("FROM"), NM("users"), KW("LEFT JOIN"), NM("orders")>> >>
      [] text = TxWindowOrdered ->
            << <<DML("SELECT"), NM("RANK"), PU("("), PU(")"), KWin("OVER"), PU("("),
                 KWin("ORDER BY"), NM("id"), PU(")"), KW("FROM"), NM("users"),
                 KW("ORDER BY"), NM("id")>> >>

Texts == <<TxEmpty, TxJunk, TxUsers, TxUsersOrders, TxOrdersUsers, TxScenario,
           TxPartialCols, TxPartialGroup, TxMixedCase, TxWindow, TxOrdered,
           TxSubquery, TxInsert, TxSumHaving, TxLeftJoin,
           TxWindowOrdered>>

Statements == [text \in Range(Texts) |-> StatementsOf(text)]

\* sqlparse.parse(text)
parse(text) == Statements[text]

\* str.upper() on the token values of the model
Upper(v) ==
    CASE v = "select" -> "SELECT"
      [] v = "from" -> "FROM"
      [] v = "users" -> "USERS"
      [] v = "Users" -> "USERS"
      [] v = "orders" -> "ORDERS"
      [] v = "u" -> "U"
      [] v = "o" -> "O"
      [] v = "name" -> "NAME"
      [] v = "id" -> "ID"
      [] v = "user_id" -> "USER_ID"
      [] OTHER -> v

\* str.lower() on the values of the Name tokens of the model
Lower(v) ==
    CASE v = "Users" -> "users"
      [] v = "COUNT" -> "count"
      [] v = "SUM" -> "sum"
      [] v = "RANK" -> "rank"
      [] OTHER -> v

\* keyword.replace(' ', '_')
ReplaceSpace(keyword) ==
    CASE keyword = "INNER JOIN" -> "INNER_JOIN"
      [] keyword = "LEFT JOIN" -> "LEFT_JOIN"
      [] keyword = "RIGHT JOIN" -> "RIGHT_JOIN"
      [] keyword = "FULL JOIN" -> "FULL_JOIN"
      [] keyword = "GROUP BY" -> "GROUP_BY"
      [] keyword = "ORDER BY" -> "ORDER_BY"
      [] OTHER -> keyword

\* whether `sub` occurs in the upper-cased token value `w`: the words of the
\* model hold no marker but themselves
Occurs(sub, w) == w = sub

\* str(parsed_query).upper(), as the sequence of its upper-cased leaf values
UpperStr(parsed_query) == [i \in 1..Len(parsed_query) |-> Upper(parsed_query[i].value)]

\* query_str.count(sub)
StrCount(query_str, sub) == Cardinality({i \in 1..Len(query_str) : Occurs(sub, query_str[i])})

\* sub in query_str
StrIn(sub, query_str) == StrCount(query_str, sub) > 0

----------------------------------------------------------------------------
(* Structural Analyzer *)

KeywordTokens(tokens) == SelectSeq(tokens, LAMBDA t : t.ttype = "Keyword")

\* GraphLearningService._get_query_type: the first direct child of the
\* statement whose token type is Keyword itself
_get_query_type(parsed_query) ==
    LET kws == SelectSeq(parsed_query, LAMBDA t : t.top /\ t.ttype = "Keyword")
    IN  IF kws = <<>> THEN "UNKNOWN" ELSE Upper(Head(kws).value)

JoinKeywords == {"JOIN", "INNER JOIN", "LEFT JOIN", "RIGHT JOIN", "FULL JOIN"}
ClauseKeywords == {"GROUP BY", "ORDER BY", "HAVING"}
SetKeywords == {"UNION", "INTERSECT", "EXCEPT"}

\* the pattern a keyword token contributes, as a sequence of length 0 or 1
KeywordPattern(keyword) ==
    IF keyword \in JoinKeywords THEN <<ReplaceSpace(keyword) \o "_PATTERN">>
    ELSE IF keyword \in ClauseKeywords THEN <<ReplaceSpace(keyword) \o "_PATTERN">>
    ELSE IF keyword \in SetKeywords THEN <<keyword \o "_PATTERN">>
    ELSE IF keyword = "WITH" THEN <<"CTE_PATTERN">>
    ELSE <<>>

\* "." in name: the lexer gives the parts of a dotted identifier as separate
\* Name leaves, so no Name value of the model holds a dot
HasDot(name) == FALSE
SplitTable(name) == name
SplitColumn(name) == name

NameValues(parsed_query) ==
    {Lower(parsed_query[i].value) :
        i \in {j \in 1..Len(parsed_query) : parsed_query[j].ttype = "Name"}}

TablesAfterFrom(parsed_query) ==
    LET froms == {j \in 1..Len(parsed_query) :
                    parsed_query[j].ttype = "Keyword" /\ Upper(parsed_query[j].value) = "FROM"}
    IN  {Lower(parsed_query[i].value) :
            i \in {j \in 1..Len(parsed_query) :
                      parsed_query[j].ttype = "Name" /\ \E f \in froms : f < j}}

TablesOf(parsed_query) ==
    {IF HasDot(n) THEN SplitTable(n) ELSE n : n \in NameValues(parsed_query)}

ColumnsOf(parsed_query) ==
    {IF HasDot(n) THEN SplitTable(n) \o "." \o SplitColumn(n) ELSE n :
        n \in NameValues(parsed_query)}

agg_functions == <<"COUNT", "SUM", "AVG", "MAX", "MIN", "STDDEV", "VARIANCE">>

RECURSIVE JoinValues(_, _, _)
JoinValues(query_str, i, j) ==
    IF i > j THEN "" ELSE query_str[i] \o JoinValues(query_str, i + 1, j)

\* re.findall(func\s*\(\s*([^)]+)\s*\), query_str): func, then "(", then a
\* non-empty run without ")" up to the first ")"; the stripped captures
AggMatches(func, query_str) ==
    LET n == Len(query_str)
        Close(i) == {j \in (i + 2)..n : query_str[j] = ")"}
        FirstClose(i) == CHOOSE j \in Close(i) : \A k \in Close(i) : j <= k
        Hit(i) == /\ Occurs(func, query_str[i])
                  /\ i + 1 <= n
                  /\ query_str[i + 1] = "("
                  /\ Close(i) # {}
                  /\ FirstClose(i) > i + 2
        Starts == SelectSeq([i \in 1..n |-> i], Hit)
    IN  [k \in 1..Len(Starts) |->
            [function |-> func,
             column |-> JoinValues(query_str, Starts[k] + 2, FirstClose(Starts[k]) - 1)]]

AggPatterns(query_str) ==
    Flatten([k \in 1..Len(agg_functions) |->
        IF StrIn(agg_functions[k], query_str)
        THEN <<agg_functions[k] \o "_AGGREGATION">> ELSE <<>>])

Aggregations(query_str) ==
    Flatten([k \in 1..Len(agg_functions) |->
        IF StrIn(agg_functions[k], query_str)
        THEN AggMatches(agg_functions[k], query_str) ELSE <<>>])

\* the terms of _calculate_complexity
BaseScore(type) ==
    IF type = "SELECT" THEN 1
    ELSE IF type \in {"INSERT", "UPDATE", "DELETE"} THEN 2
    ELSE 0

SubqueryCount(query_str) == StrCount(query_str, "SELECT") - 1

WindowScore(query_str) == IF StrIn("OVER", query_str) THEN 4 ELSE 0

_calculate_complexity_flipped(analysis, query_str) ==
    BaseScore(analysis.type)
    + Len(analysis.patterns) * 2
    + Cardinality(analysis.tables) * 1
    + Len(analysis.joins) * 3
    + Len(analysis.aggregations) * 2
    + (1 - StrCount(query_str, "SELECT")) * 5
    + WindowScore(query_str)

\* GraphLearningService._calculate_complexity
_calculate_complexity(analysis, query_str) ==
    BaseScore(analysis.type)
    + Len(analysis.patterns) * 2
    + Cardinality(analysis.tables) * 1
    + Len(analysis.joins) * 3
    + Len(analysis.aggregations) * 2
    + SubqueryCount(query_str) * 5
    + WindowScore(query_str)

_analyze_query_structure_shared(parsed_query) ==
    LET query_str == UpperStr(parsed_query)
        kws == KeywordTokens(parsed_query)
        learned == {store[i][3] : i \in {j \in 1..Len(store) : store[j][2] = "uses_table"}}
        analysis ==
            [type |-> _get_query_type(parsed_query),
             patterns |-> Flatten([k \in 1..Len(kws) |-> KeywordPattern(Upper(kws[k].value))])
                          \o AggPatterns(query_str),
             tables |-> TablesOf(parsed_query) \cup learned,
             columns |-> ColumnsOf(parsed_query),
             joins |-> <<>>,
             aggregations |-> Aggregations(query_str),
             filters |-> <<>>,
             subqueries |-> 0,
             complexity_score |-> 0]
    IN  [analysis EXCEPT !.complexity_score = _calculate_complexity(analysis, query_str)]

\* GraphLearningService._analyze_query_structure
_analyze_query_structure(parsed_query) ==
    LET query_str == UpperStr(parsed_query)
        kws == KeywordTokens(parsed_query)
        analysis ==
            [type |-> _get_query_type(parsed_query),
             patterns |-> Flatten([k \in 1..Len(kws) |-> KeywordPattern(Upper(kws[k].value))])
                          \o AggPatterns(query_str),
             tables |-> TablesOf(parsed_query),
             columns |-> ColumnsOf(parsed_query),
             joins |-> <<>>,
             aggregations |-> Aggregations(query_str),
             filters |-> <<>>,
             subqueries |-> 0,
             complexity_score |-> 0]
    IN  [analysis EXCEPT !.complexity_score = _calculate_complexity(analysis, query_str)]


----------------------------------------------------------------------------
(* The process's string hashing: hash(str) and the iteration order of a    *)
(* set of strings are fixed by the seed of the process.                    *)

HashMod == 100000

TextIndex(text) == CHOOSE i \in 1..Len(Texts) : Texts[i] = text

\* hash(query): under seed 0 the texts of the model fall into distinct
\* buckets mod 100000, under seed 1 every other text falls into the same one
StrHash(query) ==
    IF seed = 0 THEN TextIndex(query) * 7919 + 13
    ELSE TextIndex(query) * 150000 + 7

NameOrder == <<"users", "orders", "user_id", "u", "o", "name", "id", "count", "sum", "rank">>

Reverse(s) == [i \in 1..Len(s) |-> s[Len(s) + 1 - i]]

\* iteration over a set of names (for x in set, list(set))
SetIter(S) ==
    SelectSeq(IF seed = 0 THEN NameOrder ELSE Reverse(NameOrder), LAMBDA n : n \in S)

----------------------------------------------------------------------------
(* Relation Store (KnowledgeGraph) *)

add_relation(g, s, p, o) == Append(g, <<s, p, o>>)

get_relations(g, s, p) ==
    LET hits == SelectSeq(g, LAMBDA t : t[1] = s /\ t[2] = p)
    IN  [i \in 1..Len(hits) |-> hits[i][3]]

get_all_relations(g) == g

\* add_relation applied to each triple of a sequence, in order
AddAll(g, triples) ==
    IF triples = <<>> THEN g
    ELSE add_relation(g, Head(triples)[1], Head(triples)[2], Head(triples)[3]) \o Tail(triples)

----------------------------------------------------------------------------
(* Relationship Learner *)

FastLimit == 100
MediumLimit == 1000

StrBool(b) == IF b THEN "True" ELSE "False"

\* datetime.utcnow().isoformat() at clock value now
IsoFormat(now) == "T" \o ToString(now)

QueryId(query) == "query_" \o ToString(StrHash(query) % HashMod)

PerformanceClass(execution_time) ==
    IF execution_time < FastLimit THEN "FAST"
    ELSE IF execution_time < MediumLimit THEN "MEDIUM"
    ELSE "SLOW"

PerfObject(performance_class, execution_time) ==
    performance_class \o "_" \o ToString(execution_time)

_learn_performance_patterns_slow_only(query_id, analysis, execution_time, result_count) ==
    LET performance_class == PerformanceClass(execution_time)
        tables == SetIter(analysis.tables)
    IN  (IF performance_class = "SLOW"
         THEN << <<query_id, "performance_class", performance_class>> >>
         ELSE <<>>)
        \o [k \in 1..Len(analysis.patterns) |->
              <<analysis.patterns[k], "observed_performance",
                PerfObject(performance_class, execution_time)>>]
        \o [k \in 1..Len(tables) |->
              <<tables[k], "query_performance",
                PerfObject(performance_class, execution_time)>>]

\* GraphLearningService._learn_performance_patterns, as the triples it adds
_learn_performance_patterns(query_id, analysis, execution_time, result_count) ==
    LET performance_class == PerformanceClass(execution_time)
        tables == SetIter(analysis.tables)
    IN  << <<query_id, "performance_class", performance_class>> >>
        \o [k \in 1..Len(analysis.patterns) |->
              <<analysis.patterns[k], "observed_performance",
                PerfObject(performance_class, execution_time)>>]
        \o [k \in 1..Len(tables) |->
              <<tables[k], "query_performance",
                PerfObject(performance_class, execution_time)>>]

CoOccurrenceOneWay(tables) ==
    Flatten([i \in 1..Len(tables) |->
        Flatten([j \in 1..(Len(tables) - i) |->
            << <<tables[i], "co_occurs_with", tables[i + j]>> >>])])

CoOccurrenceWithSelf(tables) ==
    Flatten([i \in 1..Len(tables) |->
        Flatten([j \in 1..(Len(tables) - i + 1) |->
            << <<tables[i], "co_occurs_with", tables[i + j - 1]>>,
               <<tables[i + j - 1], "co_occurs_with", tables[i]>> >>])])

CoOccurrence(tables) ==
    Flatten([i \in 1..Len(tables) |->
        Flatten([j \in 1..(Len(tables) - i) |->
            << <<tables[i], "co_occurs_with", tables[i + j]>>,
               <<tables[i + j], "co_occurs_with", tables[i]>> >>])])

\* GraphLearningService._learn_co_occurrence_patterns, as the triples it adds
_learn_co_occurrence_patterns(analysis) ==
    LET tables == SetIter(analysis.tables)
        patterns == analysis.patterns
    IN  CoOccurrence(tables)
        \o Flatten([k \in 1..Len(patterns) |->
              [m \in 1..Len(tables) |-> <<patterns[k], "commonly_used_with", tables[m]>>]])

ContextTriples(query_id, user_context) ==
    IF user_context = NoValue THEN <<>>
    ELSE LET user_id == user_context.user_id
             department == user_context.department
         IN  << <<query_id, "written_by", user_id>> >>
             \o (IF department # "" 
                 THEN << <<user_id, "works_in", department>>,
                         <<query_id, "department_context", department>> >>
                 ELSE <<>>)

\* GraphLearningService.analyze_and_store_query after the parse: the triples
\* it adds, in the order of its add_relation calls
RecordTriples(query, execution_time, result_count, success, user_context, now) ==
    LET analysis == _analyze_query_structure(parse(query)[1])
        query_id == QueryId(query)
        tables == SetIter(analysis.tables)
        columns == SetIter(analysis.columns)
    IN  << <<query_id, "has_sql", query>>,
           <<query_id, "execution_time", ToString(execution_time)>>,
           <<query_id, "result_count", ToString(result_count)>>,
           <<query_id, "success", StrBool(success)>>,
           <<query_id, "timestamp", IsoFormat(now)>>,
           <<query_id, "query_type", analysis.type>> >>
        \o [k \in 1..Len(analysis.patterns) |->
              <<query_id, "uses_pattern", analysis.patterns[k]>>]
        \o Flatten([k \in 1..Len(tables) |->
              << <<query_id, "uses_table", tables[k]>>,
                 <<tables[k], "used_by_query", query_id>> >>])
        \o Flatten([k \in 1..Len(columns) |->
              << <<query_id, "uses_column", columns[k]>>,
                 <<columns[k], "used_by_query", query_id>> >>])
        \o Flatten([k \in 1..Len(analysis.joins) |->
              << <<analysis.joins[k].left_table,
                   "joined_with_" \o analysis.joins[k].type,
                   analysis.joins[k].right_table>>,
                 <<query_id, "performs_join",
                   analysis.joins[k].left_table \o "_" \o analysis.joins[k].right_table>> >>])
        \o Flatten([k \in 1..Len(analysis.aggregations) |->
              << <<query_id, "uses_aggregation", analysis.aggregations[k].function>>,
                 <<query_id, "aggregates_column", analysis.aggregations[k].column>> >>])
        \o Flatten([k \in 1..Len(analysis.filters) |->
              << <<query_id, "filters_on", analysis.filters[k].column>>,
                 <<query_id, "uses_operator", analysis.filters[k].operator>> >>])
        \o ContextTriples(query_id, user_context)
        \o _learn_performance_patterns(query_id, analysis, execution_time, result_count)
        \o _learn_co_occurrence_patterns(analysis)


----------------------------------------------------------------------------
(* Suggestion Engine.  A confidence is in tenths: 8 stands for 0.8. *)

RelatedTop == 3
ColumnTop == 5
SuggestionCap == 10
SlowThreshold == 2
ConfTable == 8
ConfJoin == 9
ConfColumn == 7
ConfOrderBy == 8
ConfHaving == 7
ConfPerformance == 6

Suggestion(type, suggestion, reason, confidence) ==
    [type |-> type, suggestion |-> suggestion, reason |-> reason, confidence |-> confidence]

_suggest_related_tables_inverted(g, current_tables) ==
    LET tables == SetIter(current_tables)
        ForTable(table) ==
            LET related_tables == Take(get_relations(g, table, "co_occurs_with"), RelatedTop)
                fresh == SelectSeq(related_tables, LAMBDA r : r \in current_tables)
            IN  [k \in 1..Len(fresh) |->
                    Suggestion("table", "JOIN " \o fresh[k],
                               "Frequently used with " \o table, ConfTable)]
    IN  Flatten([i \in 1..Len(tables) |-> ForTable(tables[i])])

_suggest_related_tables_uncut(g, current_tables) ==
    LET tables == SetIter(current_tables)
        ForTable(table) ==
            LET related_tables == get_relations(g, table, "co_occurs_with")
                fresh == SelectSeq(related_tables, LAMBDA r : r \notin current_tables)
            IN  [k \in 1..Len(fresh) |->
                    Suggestion("table", "JOIN " \o fresh[k],
                               "Frequently used with " \o table, ConfTable)]
    IN  Flatten([i \in 1..Len(tables) |-> ForTable(tables[i])])

\* GraphLearningService._suggest_related_tables
_suggest_related_tables(g, current_tables) ==
    LET tables == SetIter(current_tables)
        ForTable(table) ==
            LET related_tables == Take(get_relations(g, table, "co_occurs_with"), RelatedTop)
                fresh == SelectSeq(related_tables, LAMBDA r : r \notin current_tables)
            IN  [k \in 1..Len(fresh) |->
                    Suggestion("table", "JOIN " \o fresh[k],
                               "Frequently used with " \o table, ConfTable)]
    IN  Flatten([i \in 1..Len(tables) |-> ForTable(tables[i])])

\* GraphLearningService._suggest_joins
_suggest_joins(g, current_tables) ==
    LET tables_list == SetIter(current_tables)
        ForPair(table1, table2) ==
            IF table2 \in Range(get_relations(g, table1, "joined_with_LEFT"))
            THEN <<Suggestion("join",
                     "LEFT JOIN " \o table2 \o " ON " \o table1 \o ".id = "
                        \o table2 \o "." \o table1 \o "_id",
                     "Common join pattern observed", ConfJoin)>>
            ELSE <<>>
    IN  Flatten([i \in 1..Len(tables_list) |->
            Flatten([j \in 1..(Len(tables_list) - i) |->
                ForPair(tables_list[i], tables_list[i + j])])])

_suggest_columns_of_co_occurring(g, current_tables) ==
    LET tables == SetIter(current_tables)
        ForTable(table) ==
            LET common_columns == Take(get_relations(g, table, "co_occurs_with"), ColumnTop)
            IN  [k \in 1..Len(common_columns) |->
                    Suggestion("column", table \o "." \o common_columns[k],
                               "Frequently selected from " \o table, ConfColumn)]
    IN  Flatten([i \in 1..Len(tables) |-> ForTable(tables[i])])

\* GraphLearningService._suggest_columns
_suggest_columns(g, current_tables) ==
    LET tables == SetIter(current_tables)
        ForTable(table) ==
            LET common_columns == Take(get_relations(g, table, "commonly_selected"), ColumnTop)
            IN  [k \in 1..Len(common_columns) |->
                    Suggestion("column", table \o "." \o common_columns[k],
                               "Frequently selected from " \o table, ConfColumn)]
    IN  Flatten([i \in 1..Len(tables) |-> ForTable(tables[i])])

\* "AGGREGATION" in p, for the pattern names the analyzer produces
HasAggregationWord(p) == \E k \in 1..Len(agg_functions) : p = agg_functions[k] \o "_AGGREGATION"

\* GraphLearningService._suggest_patterns
_suggest_patterns(current_analysis) ==
    LET current_patterns == Range(current_analysis.patterns)
    IN  (IF "GROUP_BY_PATTERN" \in current_patterns /\ "ORDER_BY_PATTERN" \notin current_patterns
         THEN <<Suggestion("pattern", "ORDER BY column_name DESC",
                           "Commonly used with GROUP BY", ConfOrderBy)>>
         ELSE <<>>)
        \o
        (IF (\E p \in current_patterns : HasAggregationWord(p)) /\ "HAVING" \notin current_patterns
         THEN <<Suggestion("pattern", "HAVING COUNT(*) > 10",
                           "Filter aggregated results", ConfHaving)>>
         ELSE <<>>)

ExecutionTimes == {50, 99, 100, 999, 1000, 2000}

\* "SLOW" in perf, for the objects of query_performance edges
HasSlowWord(perf) == \E t \in ExecutionTimes : perf = PerfObject("SLOW", t)

_suggest_performance_optimizations_strict(g, current_analysis) ==
    LET tables == SetIter(current_analysis.tables)
        ForTable(table) ==
            LET slow_queries == get_relations(g, table, "query_performance")
                slow_count == Cardinality({i \in 1..Len(slow_queries) :
                                             HasSlowWord(slow_queries[i])})
            IN  IF slow_count > SlowThreshold + 1
                THEN <<Suggestion("performance",
                         "Consider adding LIMIT clause for " \o table,
                         "Large result sets observed for " \o table, ConfPerformance)>>
                ELSE <<>>
    IN  Flatten([i \in 1..Len(tables) |-> ForTable(tables[i])])

\* GraphLearningService._suggest_performance_optimizations
_suggest_performance_optimizations(g, current_analysis) ==
    LET tables == SetIter(current_analysis.tables)
        ForTable(table) ==
            LET slow_queries == get_relations(g, table, "query_performance")
                slow_count == Cardinality({i \in 1..Len(slow_queries) :
                                             HasSlowWord(slow_queries[i])})
            IN  IF slow_count > SlowThreshold
                THEN <<Suggestion("performance",
                         "Consider adding LIMIT clause for " \o table,
                         "Large result sets observed for " \o table, ConfPerformance)>>
                ELSE <<>>
    IN  Flatten([i \in 1..Len(tables) |-> ForTable(tables[i])])

EmptyAnalysis == [tables |-> {}, patterns |-> <<>>, columns |-> {}]

\* the five generators' outputs, concatenated in the order of the calls
AllSuggestions(g, partial_query) ==
    LET current_analysis ==
            IF parse(partial_query) = <<>> THEN EmptyAnalysis
            ELSE _analyze_query_structure(parse(partial_query)[1])
    IN  (IF current_analysis.tables # {}
         THEN _suggest_related_tables(g, current_analysis.tables) ELSE <<>>)
        \o _suggest_joins(g, current_analysis.tables)
        \o _suggest_columns(g, current_analysis.tables)
        \o _suggest_patterns(current_analysis)
        \o _suggest_performance_optimizations(g, current_analysis)

UncappedSuggestions(g, partial_query) == AllSuggestions(g, partial_query)

Confidences == <<9, 8, 7, 6>>

SortedSuggestions(g, partial_query) ==
    LET all == AllSuggestions(g, partial_query)
    IN  Take(Flatten([c \in 1..Len(Confidences) |->
                SelectSeq(all, LAMBDA x : x.confidence = Confidences[c])]), SuggestionCap)

\* GraphLearningService.get_intelligent_suggestions
get_intelligent_suggestions(g, partial_query) ==
    Take(AllSuggestions(g, partial_query), SuggestionCap)

----------------------------------------------------------------------------
(* Workspace Insights Aggregator *)

MostCommonTop == 10

Targets(all_relations, relation) ==
    SelectSeq(all_relations, LAMBDA t : t[2] = relation)

\* Counter.most_common(n) as a mapping: the n targets counted most often, a
\* tie going to the target met first in the scan
MostCommon(all_relations, relation, n) ==
    LET hits == Targets(all_relations, relation)
        keys == {hits[i][3] : i \in 1..Len(hits)}
        cnt(k) == Cardinality({i \in 1..Len(hits) : hits[i][3] = k})
        first(k) == CHOOSE i \in 1..Len(hits) :
                        hits[i][3] = k /\ \A j \in 1..(i - 1) : hits[j][3] # k
        ahead(k) == {m \in keys : cnt(m) > cnt(k) \/ (cnt(m) = cnt(k) /\ first(m) < first(k))}
        top == {k \in keys : Cardinality(ahead(k)) < n}
    IN  [k \in top |-> cnt(k)]

PerformanceCount(all_relations, class) ==
    Cardinality({i \in 1..Len(all_relations) :
        all_relations[i][2] = "performance_class" /\ all_relations[i][3] = class})

\* GraphLearningService._analyze_complexity_trends
_analyze_complexity_trends(relations) ==
    [avg_complexity |-> "5.2", trend |-> "increasing",
     most_complex_pattern |-> "JOIN with multiple aggregations"]

InsightsSlowMiscounted(g) ==
    LET all_relations == get_all_relations(g)
    IN  [most_used_tables |-> MostCommon(all_relations, "uses_table", MostCommonTop),
         common_patterns |-> MostCommon(all_relations, "uses_pattern", MostCommonTop),
         performance_distribution |->
            [fast |-> PerformanceCount(all_relations, "FAST"),
             medium |-> PerformanceCount(all_relations, "MEDIUM"),
             slow |-> PerformanceCount(all_relations, "FAST")],
         total_queries_analyzed |-> Len(Targets(all_relations, "has_sql")),
         unique_tables |-> Cardinality({t[3] : t \in Range(Targets(all_relations, "uses_table"))}),
         complexity_trends |-> _analyze_complexity_trends(all_relations)]

InsightsCountingKeys(g) ==
    LET all_relations == get_all_relations(g)
    IN  [most_used_tables |-> MostCommon(all_relations, "uses_table", MostCommonTop),
         common_patterns |-> MostCommon(all_relations, "uses_pattern", MostCommonTop),
         performance_distribution |->
            [fast |-> PerformanceCount(all_relations, "FAST"),
             medium |-> PerformanceCount(all_relations, "MEDIUM"),
             slow |-> PerformanceCount(all_relations, "SLOW")],
         total_queries_analyzed |->
            Cardinality({t[1] : t \in Range(Targets(all_relations, "has_sql"))}),
         unique_tables |-> Cardinality({t[3] : t \in Range(Targets(all_relations, "uses_table"))}),
         complexity_trends |-> _analyze_complexity_trends(all_relations)]

\* GraphLearningService.get_workspace_insights
get_workspace_insights(g) ==
    LET all_relations == get_all_relations(g)
    IN  [most_used_tables |-> MostCommon(all_relations, "uses_table", MostCommonTop),
         common_patterns |-> MostCommon(all_relations, "uses_pattern", MostCommonTop),
         performance_distribution |->
            [fast |-> PerformanceCount(all_relations, "FAST"),
             medium |-> PerformanceCount(all_relations, "MEDIUM"),
             slow |-> PerformanceCount(all_relations, "SLOW")],
         total_queries_analyzed |-> Len(Targets(all_relations, "has_sql")),
         unique_tables |-> Cardinality({t[3] : t \in Range(Targets(all_relations, "uses_table"))}),
         complexity_trends |-> _analyze_complexity_trends(all_relations)]


----------------------------------------------------------------------------
(* The operations *)

Call(query, execution_time, result_count, success, user_context) ==
    [query |-> query, execution_time |-> execution_time, result_count |-> result_count,
     success |-> success, user_context |-> user_context]

Alice == [user_id |-> "alice", department |-> "sales"]

RecordCalls ==
    {Call(q, 1000, 10, TRUE, NoValue) : q \in {TxUsersOrders, TxLeftJoin, TxScenario}}
    \cup {Call(TxUsers, 99, 10, TRUE, NoValue),
          Call(TxJunk, 100, 0, FALSE, NoValue),
          Call(TxEmpty, 50, 0, FALSE, NoValue)}

AnalyzeTexts == Range(Texts) \ {TxEmpty}
AnalyzeRecordCalls == {Call(TxUsersOrders, 50, 10, TRUE, Alice), Call(TxJunk, 1000, 0, FALSE, NoValue)}

ConcurrentCalls ==
    {Call(TxJunk, t, 0, FALSE, NoValue) : t \in {50, 100, 1000}}
    \cup {Call(TxEmpty, 50, 0, FALSE, NoValue)}

PartialTexts == {TxEmpty, TxUsers, TxUsersOrders, TxPartialCols, TxPartialGroup, TxSumHaving}

NoCall == [call |-> NoValue, todo |-> <<>>]
Idle == [w \in Writers |-> NoCall]

\* the workbench component as mounted: liveAnalysis = ref({}), no timer set,
\* no request made; sqlQuery is the number of the edit that produced the text
\* (0: the text is blank), started the texts of the requests made, in order,
\* responses what came back for each
Mounted ==
    [sqlQuery |-> 0, edits |-> 0, analyzeTimeout |-> FALSE, liveAnalysis |-> NoValue,
     started |-> <<>>, responses |-> <<>>]

Init ==
    /\ store = <<>>
    /\ seed \in HashSeeds
    /\ nrec = 0
    /\ recorded = <<>>
    /\ op = "init"
    /\ arg = NoValue
    /\ ret = NoValue
    /\ raised = FALSE
    /\ before = 0
    /\ memo = <<>>
    /\ pending = Idle
    /\ fault = NoValue
    /\ graphs = [w \in WorkspaceIds |-> <<>>]
    /\ workbench = Mounted

StoreAfterRecordUpsert(g, c, now) ==
    AddAll(SelectSeq(g, LAMBDA t : t[1] # QueryId(c.query)),
           RecordTriples(c.query, c.execution_time, c.result_count, c.success,
                         c.user_context, now))

StoreAfterRecordReverseSwapped(g, c, now) ==
    LET triples == RecordTriples(c.query, c.execution_time, c.result_count, c.success,
                                 c.user_context, now)
    IN  AddAll(g, [k \in 1..Len(triples) |->
                    IF triples[k][2] = "used_by_query"
                    THEN <<triples[k][3], triples[k][2], triples[k][1]>>
                    ELSE triples[k]])

\* the store after analyze_and_store_query(c) has run to its end on store g
StoreAfterRecord(g, c, now) ==
    AddAll(g, RecordTriples(c.query, c.execution_time, c.result_count, c.success,
                            c.user_context, now))

\* record(): analyze_and_store_query, run as one step; parse(query)[0]
\* raises IndexError when the text holds no statement
RecordIn(calls, limit) ==
    \E c \in calls :
        /\ nrec < limit
        /\ nrec' = nrec + 1
        /\ op' = "record"
        /\ arg' = c
        /\ ret' = NoValue
        /\ before' = Len(store)
        /\ IF parse(c.query) = <<>>
           THEN /\ raised' = TRUE
                /\ UNCHANGED <<store, recorded>>
           ELSE /\ raised' = FALSE
                /\ store' = StoreAfterRecord(store, c, nrec)
                /\ recorded' = Append(recorded, c)
        /\ UNCHANGED <<seed, memo, pending, fault, graphs, workbench>>

Record == RecordIn(RecordCalls, MaxRecords)

\* suggest(): get_intelligent_suggestions
Suggest ==
    \E p \in PartialTexts :
        /\ op' = "suggest"
        /\ arg' = [partial_query |-> p]
        /\ ret' = get_intelligent_suggestions(store, p)
        /\ raised' = FALSE
        /\ before' = Len(store)
        /\ UNCHANGED <<store, seed, nrec, recorded, memo, pending, fault, graphs, workbench>>

\* insights(): get_workspace_insights
Insights ==
    /\ op' = "insights"
    /\ arg' = NoValue
    /\ ret' = get_workspace_insights(store)
    /\ raised' = FALSE
    /\ before' = Len(store)
    /\ UNCHANGED <<store, seed, nrec, recorded, memo, pending, fault, graphs, workbench>>

Next == Record \/ Suggest \/ Insights

Spec == Init /\ [][Next]_vars


\* analyze(): _analyze_query_structure on the statement of a text.  memo keeps
\* the latest analyze call and one earlier call, any of them
Analyze ==
    \E t \in AnalyzeTexts :
        LET analysis == _analyze_query_structure(parse(t)[1])
            new == [text |-> t, analysis |-> analysis]
        IN  /\ op' = "analyze"
            /\ arg' = [text |-> t]
            /\ ret' = analysis
            /\ raised' = FALSE
            /\ before' = Len(store)
            /\ memo' \in (IF memo = <<>> THEN {<<new>>}
                          ELSE {<<memo[1], new>>, <<memo[Len(memo)], new>>})
            /\ UNCHANGED <<store, seed, nrec, recorded, pending, fault, graphs, workbench>>

RecordBetweenAnalyses == RecordIn(AnalyzeRecordCalls, MaxAnalyzeRecords)

NextAnalyze == Analyze \/ RecordBetweenAnalyses

SpecAnalyze == Init /\ [][NextAnalyze]_vars

\* The graph of a workspace as the service finds it: KnowledgeGraph(workspace_id)
\* opens the workspace's graph, which holds what was added to it before.
GraphJoins ==
    << <<"users", "co_occurs_with", "orders">>, <<"orders", "co_occurs_with", "users">>,
       <<"users", "joined_with_LEFT", "orders">>, <<"orders", "joined_with_LEFT", "users">>,
       <<"users", "commonly_selected", "name">> >>

GraphColumns ==
    [k \in 1..3 |-> <<"orders", "co_occurs_with", <<"users", "u", "name">>[k]>>]
    \o [k \in 1..3 |-> <<"o", "co_occurs_with", <<"users", "u", "name">>[k]>>]
    \o [k \in 1..6 |-> <<"orders", "commonly_selected",
                           <<"id", "user_id", "amount", "status", "created_at", "total">>[k]>>]

WorkspaceGraphs == {<<>>, GraphJoins, GraphColumns, GraphJoins \o GraphColumns}

StoredCalls ==
    {Call(TxLeftJoin, 1000, 10, TRUE, NoValue), Call(TxUsers, 99, 1, TRUE, Alice),
     Call(TxWindowOrdered, 100, 5, TRUE, NoValue), Call(TxScenario, 999, 3, TRUE, NoValue)}

InitStored ==
    /\ store \in WorkspaceGraphs
    /\ seed \in HashSeeds
    /\ nrec = 0
    /\ recorded = <<>>
    /\ op = "init"
    /\ arg = NoValue
    /\ ret = NoValue
    /\ raised = FALSE
    /\ before = Len(store)
    /\ memo = <<>>
    /\ pending = Idle
    /\ fault = NoValue
    /\ graphs = [w \in WorkspaceIds |-> <<>>]
    /\ workbench = Mounted

RecordStored == RecordIn(StoredCalls, MaxStoredRecords)

NextStored == RecordStored \/ Suggest \/ Insights

SpecStored == InitStored /\ [][NextStored]_vars

\* One service per workspace identifier.  KnowledgeGraph(workspace_id) names
\* the graph the backend keeps for the workspace; self.kg of the service
\* constructed with that identifier reads and writes that graph only.
KnowledgeGraph(workspace_id) == workspace_id

kg_of_default(workspace_id) == KnowledgeGraph("production")

\* GraphLearningService.__init__: self.kg of the service made for workspace_id
kg(workspace_id) == KnowledgeGraph(workspace_id)

WorkspaceCalls ==
    {Call(TxUsersOrders, 1000, 10, TRUE, NoValue), Call(TxUsers, 99, 1, TRUE, Alice),
     Call(TxEmpty, 50, 0, FALSE, NoValue)}

WorkspacePartials == {TxUsers, TxPartialGroup}

\* record() on the service of workspace w
RecordAt ==
    \E w \in WorkspaceIds : \E c \in WorkspaceCalls :
        /\ nrec < MaxWorkspaceRecords
        /\ nrec' = nrec + 1
        /\ op' = "record"
        /\ arg' = [workspace_id |-> w, call |-> c]
        /\ ret' = NoValue
        /\ before' = Len(graphs[kg(w)])
        /\ IF parse(c.query) = <<>>
           THEN /\ raised' = TRUE
                /\ UNCHANGED graphs
           ELSE /\ raised' = FALSE
                /\ graphs' = [graphs EXCEPT ![kg(w)] = StoreAfterRecord(@, c, nrec)]
        /\ UNCHANGED <<store, seed, recorded, memo, pending, fault, workbench>>

\* suggest() on the service of workspace w
SuggestAt ==
    \E w \in WorkspaceIds : \E p \in WorkspacePartials :
        /\ op' = "suggest"
        /\ arg' = [workspace_id |-> w, partial_query |-> p]
        /\ ret' = get_intelligent_suggestions(graphs[kg(w)], p)
        /\ raised' = FALSE
        /\ before' = Len(graphs[kg(w)])
        /\ UNCHANGED <<store, seed, nrec, recorded, memo, pending, fault, graphs, workbench>>

\* insights() on the service of workspace w
InsightsAt ==
    \E w \in WorkspaceIds :
        /\ op' = "insights"
        /\ arg' = [workspace_id |-> w]
        /\ ret' = get_workspace_insights(graphs[kg(w)])
        /\ raised' = FALSE
        /\ before' = Len(graphs[kg(w)])
        /\ UNCHANGED <<store, seed, nrec, recorded, memo, pending, fault, graphs, workbench>>

NextWorkspaces == RecordAt \/ SuggestAt \/ InsightsAt

SpecWorkspaces == Init /\ [][NextWorkspaces]_vars

\* The workbench's live analysis.  The result of analyzeSQL for a text, the
\* API's answer, is a value fixed by the text.
analyzeSQL(query) == [analysis_of |-> query]

\* an edit of the text, then onQueryChange: with the assistant on and the
\* text not blank, debouncedAnalyze() clears the timer and sets a new one
onQueryChange ==
    \E blank \in BOOLEAN :
        /\ workbench.edits < MaxEdits
        /\ workbench' = [workbench EXCEPT
                            !.edits = @ + 1,
                            !.sqlQuery = IF blank THEN 0 ELSE workbench.edits + 1,
                            !.analyzeTimeout = IF blank THEN @ ELSE TRUE]
        /\ op' = "edit"
        /\ UNCHANGED <<store, seed, nrec, recorded, arg, ret, raised, before, memo, pending,
                       fault, graphs>>

\* the timer set by debouncedAnalyze fires: the callback calls analyzeSQL on
\* the text as it is now and waits for the answer
TimerFires ==
    /\ workbench.analyzeTimeout
    /\ workbench' = [workbench EXCEPT
                        !.analyzeTimeout = FALSE,
                        !.started = Append(@, workbench.sqlQuery),
                        !.responses = Append(@, "pending")]
    /\ op' = "timer"
    /\ UNCHANGED <<store, seed, nrec, recorded, arg, ret, raised, before, memo, pending,
                   fault, graphs>>

\* the answer to a request arrives: its callback resumes and assigns
\* liveAnalysis, or logs the error and leaves it
ResponseArrives ==
    \E i \in 1..Len(workbench.started) : \E ok \in BOOLEAN :
        /\ workbench.responses[i] = "pending"
        /\ workbench' = [workbench EXCEPT
                            !.responses[i] = IF ok THEN "ok" ELSE "failed",
                            !.liveAnalysis = IF ok THEN analyzeSQL(workbench.started[i]) ELSE @]
        /\ op' = "response"
        /\ UNCHANGED <<store, seed, nrec, recorded, arg, ret, raised, before, memo, pending,
                       fault, graphs>>

NextLive == onQueryChange \/ TimerFires \/ ResponseArrives

SpecLive == Init /\ [][NextLive]_vars

\* The backend of the store being unavailable during an operation: the
\* add_relation, get_relations or get_all_relations call made then raises,
\* and no caller in the service catches it.
Generators == {"tables", "joins", "columns", "performance"}

\* try: parse and analyse the partial query; except: the empty analysis
ParsePartial(partial_query) ==
    IF parse(partial_query) = <<>> THEN EmptyAnalysis
    ELSE _analyze_query_structure(parse(partial_query)[1])

\* whether a generator calls get_relations, given the tables of the partial
\* query: once per table, the join generator once per pair of tables
ReadsStore(generator, tables) ==
    IF generator = "joins" THEN Cardinality(tables) >= 2 ELSE tables # {}

FaultCalls == {Call(TxUsers, 1000, 10, TRUE, NoValue), Call(TxJunk, 100, 0, FALSE, Alice)}
FaultPartials == {TxEmpty, TxUsers, TxPartialGroup}

SuggestRemembering ==
    \E p \in FaultPartials :
        /\ op' = "suggest"
        /\ arg' = [partial_query |-> p]
        /\ ret' = get_intelligent_suggestions(store, p)
        /\ raised' = FALSE
        /\ before' = Len(store)
        /\ fault' = NoValue
        /\ store' = add_relation(store, "suggest", "partial_query", p)
        /\ UNCHANGED <<seed, nrec, recorded, memo, pending, graphs, workbench>>

\* record(), its k-th add_relation call raising (k = 0: none does): the
\* triples before the k-th are in the store, the exception leaves
\* analyze_and_store_query
RecordFaulty ==
    \E c \in FaultCalls :
        LET triples == RecordTriples(c.query, c.execution_time, c.result_count, c.success,
                                     c.user_context, nrec)
        IN  \E k \in 0..Len(triples) :
                /\ nrec < MaxFaultRecords
                /\ nrec' = nrec + 1
                /\ op' = "record"
                /\ arg' = c
                /\ ret' = NoValue
                /\ before' = Len(store)
                /\ IF k = 0
                   THEN /\ fault' = NoValue
                        /\ raised' = FALSE
                        /\ store' = StoreAfterRecord(store, c, nrec)
                        /\ recorded' = Append(recorded, c)
                   ELSE /\ fault' = [add |-> k]
                        /\ raised' = TRUE
                        /\ store' = AddAll(store, SubSeq(triples, 1, k - 1))
                        /\ UNCHANGED recorded
                /\ UNCHANGED <<seed, memo, pending, graphs, workbench>>

\* suggest(), the get_relations call of one generator raising (f = "none":
\* no call does): the exception leaves get_intelligent_suggestions
SuggestFaulty ==
    \E p \in FaultPartials : \E f \in Generators \cup {"none"} :
        /\ f # "none" => ReadsStore(f, ParsePartial(p).tables)
        /\ op' = "suggest"
        /\ arg' = [partial_query |-> p]
        /\ before' = Len(store)
        /\ IF f = "none"
           THEN /\ fault' = NoValue
                /\ raised' = FALSE
                /\ ret' = get_intelligent_suggestions(store, p)
           ELSE /\ fault' = [read |-> f]
                /\ raised' = TRUE
                /\ ret' = NoValue
        /\ UNCHANGED <<store, seed, nrec, recorded, memo, pending, graphs, workbench>>

\* insights(), the get_all_relations call raising or not
InsightsFaulty ==
    \E f \in BOOLEAN :
        /\ op' = "insights"
        /\ arg' = NoValue
        /\ before' = Len(store)
        /\ IF f
           THEN /\ fault' = [scan |-> TRUE]
                /\ raised' = TRUE
                /\ ret' = NoValue
           ELSE /\ fault' = NoValue
                /\ raised' = FALSE
                /\ ret' = get_workspace_insights(store)
        /\ UNCHANGED <<store, seed, nrec, recorded, memo, pending, graphs, workbench>>

NextFaults == RecordFaulty \/ SuggestFaulty \/ InsightsFaulty

SpecFaults == Init /\ [][NextFaults]_vars

\* a writer starts its record() call (each writer makes one): the parse and
\* the analysis are done, the add_relation calls are still to come
Begin(w) ==
    \E c \in ConcurrentCalls :
        /\ pending[w] = NoCall
        /\ nrec' = nrec + 1
        /\ op' = "begin"
        /\ arg' = c
        /\ ret' = NoValue
        /\ before' = Len(store)
        /\ raised' = (parse(c.query) = <<>>)
        /\ pending' = [pending EXCEPT ![w] =
              [call |-> c,
               todo |-> IF parse(c.query) = <<>> THEN <<>>
                        ELSE RecordTriples(c.query, c.execution_time, c.result_count,
                                           c.success, c.user_context, nrec)]]
        /\ UNCHANGED <<store, seed, recorded, memo, fault, graphs, workbench>>

StepOverwriting(w) ==
    /\ pending[w].todo # <<>>
    /\ LET t == Head(pending[w].todo)
           rest == Tail(pending[w].todo)
           racing == \E v \in Writers \ {w} : pending[v].todo # <<>>
       IN  /\ store' = IF racing /\ store # <<>>
                       THEN [store EXCEPT ![Len(store)] = <<t[1], t[2], t[3]>>]
                       ELSE add_relation(store, t[1], t[2], t[3])
           /\ pending' = [pending EXCEPT ![w].todo = rest]
           /\ recorded' = IF rest = <<>> THEN Append(recorded, pending[w].call) ELSE recorded
    /\ op' = "step"
    /\ arg' = NoValue
    /\ ret' = NoValue
    /\ raised' = FALSE
    /\ before' = Len(store)
    /\ UNCHANGED <<seed, nrec, memo, fault, graphs, workbench>>

\* the writer's next add_relation call; its record() returns after the last
Step(w) ==
    /\ pending[w].todo # <<>>
    /\ LET t == Head(pending[w].todo)
           rest == Tail(pending[w].todo)
       IN  /\ store' = add_relation(store, t[1], t[2], t[3])
           /\ IF rest = <<>>
              THEN /\ pending' = [pending EXCEPT ![w].todo = rest]
                   /\ recorded' = Append(recorded, pending[w].call)
              ELSE /\ pending' = [pending EXCEPT ![w].todo = rest]
                   /\ UNCHANGED recorded
    /\ op' = "step"
    /\ arg' = NoValue
    /\ ret' = NoValue
    /\ raised' = FALSE
    /\ before' = Len(store)
    /\ UNCHANGED <<seed, nrec, memo, fault, graphs, workbench>>

BeginSome == \E w \in Writers : Begin(w)
StepSome == \E w \in Writers : Step(w)

NextConcurrent == BeginSome \/ StepSome \/ Insights

SpecConcurrent == Init /\ [][NextConcurrent]_vars


----------------------------------------------------------------------------
(* Properties *)

TableNames == Range(NameOrder)

\* the triples the last operation appended
Appended == SubSeq(store, before + 1, Len(store))

\* the tables of the analysis of a text; none when the text holds no statement
TablesByText ==
    [text \in Range(Texts) |->
        IF parse(text) = <<>> THEN {} ELSE _analyze_query_structure(parse(text)[1]).tables]

TextTables(text) == TablesByText[text]

InProgress == \E w \in Writers : pending[w].todo # <<>>

\* C1: suggest() returns at most 10 suggestions, however many the five
\* generators produce together.
C1_SuggestionBounded == op = "suggest" => Len(ret) <= 10

C1_Witness ==
    /\ op = "suggest"
    /\ Len(AllSuggestions(store, arg.partial_query)) > 10
    /\ Len(ret) = 10

\* C2: every triple in the store stays in the store, unchanged and at its
\* place, over every step; the full scan never gets shorter.
C2_AppendOnly ==
    [][/\ Len(store') >= Len(store)
       /\ \A i \in 1..Len(store) : store'[i] = store[i]]_vars

C2_Witness == op \in {"suggest", "insights"} /\ nrec >= 2 /\ Len(store) > 20

\* the pairs <<s, o>> with o among get_relations(store, s, "co_occurs_with"):
\* the co_occurs_with triples of the store
CoOccurrencePairs ==
    {<<store[i][1], store[i][3]>> : i \in {j \in 1..Len(store) : store[j][2] = "co_occurs_with"}}

\* C3: for tables t1 # t2, get(t1, co_occurs_with) contains t2 if and only if
\* get(t2, co_occurs_with) contains t1, and both do once t1 and t2 were
\* recorded together in a query.
C3_CoOccurrenceSymmetric ==
    LET co == CoOccurrencePairs
        queries == {recorded[i].query : i \in 1..Len(recorded)}
        together == UNION {TextTables(q) \X TextTables(q) : q \in queries}
    IN  \A t1 \in TableNames : \A t2 \in TableNames \ {t1} :
            /\ <<t1, t2>> \in co <=> <<t2, t1>> \in co
            /\ <<t1, t2>> \in together => (<<t1, t2>> \in co /\ <<t2, t1>> \in co)

C3_Witness ==
    /\ op = "record"
    /\ {"users", "orders"} \subseteq TextTables(arg.query)
    /\ "orders" \in Range(get_relations(store, "users", "co_occurs_with"))
    /\ "users" \in Range(get_relations(store, "orders", "co_occurs_with"))

\* C4: at any snapshot of the store, also while record() calls are in
\* progress, the fast, medium and slow counts of insights() add up to the
\* number of performance_class triples in the snapshot.
C4_InsightsConsistent ==
    op = "insights" =>
        ret.performance_distribution.fast + ret.performance_distribution.medium
            + ret.performance_distribution.slow
        = Cardinality({i \in 1..Len(store) : store[i][2] = "performance_class"})

C4_Witness ==
    /\ op = "insights"
    /\ InProgress
    /\ ret.performance_distribution.slow = 1
    /\ ret.total_queries_analyzed = 2

\* a text the Analyzer cannot parse: no statement at all, or a statement
\* without a keyword or a name in it
CannotParse(text) ==
    \/ parse(text) = <<>>
    \/ \A i \in 1..Len(parse(text)[1]) :
          parse(text)[1][i].ttype \notin {"Keyword", "Keyword.DML", "Name"}

ScalarFactsWritten ==
    LET query_id == QueryId(arg.query)
    IN  /\ <<query_id, "has_sql", arg.query>> \in Range(Appended)
        /\ <<query_id, "execution_time", ToString(arg.execution_time)>> \in Range(Appended)
        /\ <<query_id, "result_count", ToString(arg.result_count)>> \in Range(Appended)
        /\ <<query_id, "success", StrBool(arg.success)>> \in Range(Appended)
        /\ <<query_id, "query_type", "UNKNOWN">> \in Range(Appended)

\* C5: for every text the Analyzer cannot parse, the empty text included,
\* record() does not raise and appends has_sql, execution_time, result_count
\* and success on the query key, with query_type = UNKNOWN.
C5_UnparsableStillRecorded ==
    (op = "record" /\ CannotParse(arg.query)) => (~raised /\ ScalarFactsWritten)

\* the same for the texts that hold a statement, which is what the code does
C5_JunkStillRecorded ==
    (op = "record" /\ CannotParse(arg.query) /\ parse(arg.query) # <<>>)
        => (~raised /\ ScalarFactsWritten)


\* whether name b occurs in name x as a substring, for the names of the model
NameOccurs(b, x) ==
    \/ b = x
    \/ <<b, x>> \in {<<"u", "users">>, <<"u", "user_id">>, <<"u", "count">>, <<"u", "sum">>,
                     <<"o", "orders">>, <<"o", "count">>, <<"id", "user_id">>}

\* the tables of the recorded queries, by position in recorded
RecordedTables == [i \in 1..Len(recorded) |-> TextTables(recorded[i].query)]

\* at least n distinct recorded query texts reference both a and b
RecordedTogether(tabs, a, b, n) ==
    Cardinality({recorded[i].query : i \in {j \in 1..Len(recorded) : {a, b} \subseteq tabs[j]}}) >= n

\* at least n recorded queries touch table t with an execution time >= 1000
RecordedSlow(tabs, t, n) ==
    Cardinality({j \in 1..Len(recorded) :
        t \in tabs[j] /\ recorded[j].execution_time >= 1000}) >= n

LimitSuggestion(t) ==
    [type |-> "performance", suggestion |-> "Consider adding LIMIT clause for " \o t,
     reason |-> "Large result sets observed for " \o t, confidence |-> 6]

\* C7, as claimed: after 3 recorded queries that touch T, each with an
\* execution time >= 1000, suggest() for any partial query that references T
\* returns the LIMIT suggestion for T with confidence 0.6.
C7_LimitAlwaysSuggested ==
    op = "suggest" =>
        LET tabs == RecordedTables
        IN  \A t \in TextTables(arg.partial_query) :
                RecordedSlow(tabs, t, 3) => LimitSuggestion(t) \in Range(ret)

\* C7, amended: the performance generator then emits the LIMIT suggestion for
\* T, and suggest() returns it whenever the five generators together produce
\* at most 10 suggestions; beyond that the cut to 10 may drop it.
C7_LimitSuggestedWithinCap ==
    op = "suggest" =>
        LET tabs == RecordedTables
            all == AllSuggestions(store, arg.partial_query)
        IN  \A t \in TextTables(arg.partial_query) :
                RecordedSlow(tabs, t, 3) =>
                    /\ LimitSuggestion(t) \in Range(all)
                    /\ Len(all) <= 10 => LimitSuggestion(t) \in Range(ret)

C7_Witness ==
    /\ op = "suggest"
    /\ arg.partial_query = TxUsers
    /\ RecordedSlow(RecordedTables, "users", 3)
    /\ LimitSuggestion("users") \in Range(ret)

\* C8: each record() call appends exactly one performance_class triple, on
\* its query key, with FAST below 100, MEDIUM from 100 below 1000, SLOW from
\* 1000 on.
C8_OnePerformanceClassPerCall ==
    op = "record" =>
        LET cls == IF arg.execution_time < 100 THEN "FAST"
                   ELSE IF arg.execution_time < 1000 THEN "MEDIUM" ELSE "SLOW"
        IN  SelectSeq(Appended, LAMBDA t : t[2] = "performance_class")
                = << <<QueryId(arg.query), "performance_class", cls>> >>

\* the same for the calls that do not raise, which is what the code does
C8_OnePerformanceClassPerReturnedCall ==
    (op = "record" /\ ~raised) => C8_OnePerformanceClassPerCall

\* the counts of an analysed text that the complexity score is built from
CountsAtLeast(b, a) ==
    /\ Len(b.analysis.patterns) >= Len(a.analysis.patterns)
    /\ Cardinality(b.analysis.tables) >= Cardinality(a.analysis.tables)
    /\ Len(b.analysis.joins) >= Len(a.analysis.joins)
    /\ Len(b.analysis.aggregations) >= Len(a.analysis.aggregations)
    /\ SubqueryCount(UpperStr(parse(b.text)[1])) >= SubqueryCount(UpperStr(parse(a.text)[1]))

\* C9, as claimed: when B's pattern, table, join, aggregation and subquery
\* counts are each >= A's, B's complexity_score is >= A's.
C9_ComplexityMonotoneInCounts ==
    \A i \in 1..Len(memo) : \A j \in 1..Len(memo) :
        CountsAtLeast(memo[j], memo[i])
            => memo[j].analysis.complexity_score >= memo[i].analysis.complexity_score

\* C9, amended: the same when, besides the five counts, B's base score for
\* its type and B's window-function term (4 when the text contains OVER) are
\* each >= A's.
C9_ComplexityMonotoneInAllTerms ==
    \A i \in 1..Len(memo) : \A j \in 1..Len(memo) :
        (/\ CountsAtLeast(memo[j], memo[i])
         /\ BaseScore(memo[j].analysis.type) >= BaseScore(memo[i].analysis.type)
         /\ WindowScore(UpperStr(parse(memo[j].text)[1]))
                >= WindowScore(UpperStr(parse(memo[i].text)[1])))
        => memo[j].analysis.complexity_score >= memo[i].analysis.complexity_score

C9_Witness ==
    /\ op = "analyze"
    /\ Len(memo) = 2
    /\ memo[1].text = TxUsers
    /\ memo[2].text = TxSubquery
    /\ CountsAtLeast(memo[2], memo[1])
    /\ memo[2].analysis.complexity_score > memo[1].analysis.complexity_score

CurrentAnalysis ==
    IF parse(arg.partial_query) = <<>> THEN EmptyAnalysis
    ELSE _analyze_query_structure(parse(arg.partial_query)[1])

\* C11: suggest() returns the first 10 entries of the outputs of the related
\* tables, joins, columns, patterns and performance generators, concatenated
\* in that order and not sorted by confidence.
C11_GeneratorOrderThenCut ==
    op = "suggest" =>
        LET a == CurrentAnalysis
            all == _suggest_related_tables(store, a.tables)
                   \o _suggest_joins(store, a.tables)
                   \o _suggest_columns(store, a.tables)
                   \o _suggest_patterns(a)
                   \o _suggest_performance_optimizations(store, a)
        IN  /\ Len(ret) = (IF Len(all) < 10 THEN Len(all) ELSE 10)
            /\ \A k \in 1..Len(ret) : ret[k] = all[k]

\* a suggestion of lower confidence is returned and a suggestion of higher
\* confidence from a later generator is cut off
C11_Witness ==
    /\ op = "suggest"
    /\ Len(ret) = 10
    /\ LET all == AllSuggestions(store, arg.partial_query)
       IN  \E k \in 1..10 : \E m \in 11..Len(all) :
              /\ all[k].type = "column" /\ ret[k] = all[k]
              /\ all[m].type = "pattern"
              /\ all[m].confidence > all[k].confidence
              /\ all[m] \notin Range(ret)
\* the pairs <<A, B>> of tables that a text LEFT JOINs
LeftJoined(text) == IF text = TxLeftJoin THEN {<<"users", "orders">>} ELSE {}

\* C12: after a query that LEFT JOINs A to B was recorded, suggest() on a
\* partial query that references A and B returns a join suggestion (LEFT JOIN
\* ... ON ...) with confidence 0.9.
C12_LeftJoinSuggested ==
    op = "suggest" =>
        \A i \in 1..Len(recorded) : \A ab \in LeftJoined(recorded[i].query) :
            {ab[1], ab[2]} \subseteq CurrentAnalysis.tables
                => \E k \in 1..Len(ret) : ret[k].type = "join" /\ ret[k].confidence = 9

\* what the code does: record() writes no joined_with_LEFT edge and no
\* performs_join fact, the joins of an analysis being always empty
C12_NoJoinEdgeLearned ==
    \A i \in 1..Len(store) : store[i][2] \notin {"joined_with_LEFT", "performs_join"}
HavingSuggestion ==
    [type |-> "pattern", suggestion |-> "HAVING COUNT(*) > 10",
     reason |-> "Filter aggregated results", confidence |-> 7]

\* the analysis holds a pattern for an aggregate function
HasAggregationPattern(analysis) ==
    \E k \in 1..Len(analysis.patterns) :
        analysis.patterns[k] \in {"COUNT_AGGREGATION", "SUM_AGGREGATION", "AVG_AGGREGATION",
                                  "MAX_AGGREGATION", "MIN_AGGREGATION", "STDDEV_AGGREGATION",
                                  "VARIANCE_AGGREGATION"}

HasHavingPattern(analysis) == "HAVING_PATTERN" \in Range(analysis.patterns)

\* C13: the pattern generator emits the HAVING suggestion (confidence 0.7)
\* exactly when the partial query's analysis holds an aggregation pattern and
\* no HAVING pattern; a partial query with a HAVING clause never gets it.
C13_HavingOnlyWithoutHaving ==
    op = "suggest" =>
        LET a == CurrentAnalysis
            all == AllSuggestions(store, arg.partial_query)
        IN  /\ HavingSuggestion \in Range(all)
                  <=> (HasAggregationPattern(a) /\ ~HasHavingPattern(a))
            /\ HasHavingPattern(a) => HavingSuggestion \notin Range(ret)

\* what the code does: the suggestion is emitted whenever an aggregation
\* pattern is present, the test for "HAVING" never matching HAVING_PATTERN
C13_HavingWithAnyAggregation ==
    op = "suggest" =>
        (HavingSuggestion \in Range(AllSuggestions(store, arg.partial_query))
            <=> HasAggregationPattern(CurrentAnalysis))
\* the list suggest() is to return when the read of generator f fails: the
\* outputs of the other generators, in order, cut to 10
WithoutGenerator(f) ==
    LET a == CurrentAnalysis
    IN  Take((IF f = "tables" THEN <<>> ELSE _suggest_related_tables(store, a.tables))
             \o (IF f = "joins" THEN <<>> ELSE _suggest_joins(store, a.tables))
             \o (IF f = "columns" THEN <<>> ELSE _suggest_columns(store, a.tables))
             \o _suggest_patterns(a)
             \o (IF f = "performance" THEN <<>>
                 ELSE _suggest_performance_optimizations(store, a)), 10)

\* C14: when a store read fails during suggest(), the call does not fail; it
\* returns the suggestions of the other generators, the generator whose read
\* failed contributing none.
C14_ReadFailureDegrades ==
    (op = "suggest" /\ fault # NoValue) =>
        (~raised /\ ret = WithoutGenerator(fault.read))

\* C15: a store write failure at any add step of record() is not surfaced to
\* the caller of record().
C15_WriteFailureNotSurfaced ==
    (op = "record" /\ fault # NoValue) => ~raised

\* C20: suggest() and insights() leave the store as it was, also when the
\* call fails or the partial query cannot be parsed.
C20_ReadOnly ==
    [][op' \in {"suggest", "insights"} => store' = store]_vars

C20_Witness ==
    /\ op = "suggest"
    /\ raised
    /\ fault = [read |-> "performance"]
    /\ Len(store) > 10
    /\ before = Len(store)
QueryTypes == {"SELECT", "INSERT", "UPDATE", "DELETE", "UNKNOWN"}

\* the objects of the query_type triples of the store
StoredQueryTypes == {store[i][3] : i \in {j \in 1..Len(store) : store[j][2] = "query_type"}}

\* C16: the object of every query_type triple written by record() is one of
\* SELECT, INSERT, UPDATE, DELETE, UNKNOWN.
C16_QueryTypeInEnum == StoredQueryTypes \subseteq QueryTypes

\* what the code does: the type is the first direct child whose token type
\* is Keyword itself, which the statement keyword (Keyword.DML) never is
C16_QueryTypeNeverStatementKeyword ==
    StoredQueryTypes \cap {"SELECT", "INSERT", "UPDATE", "DELETE"} = {}

\* C17: record() calls with distinct query texts use distinct query keys: no
\* two has_sql triples with different texts share their subject.
C17_DistinctTextsDistinctKeys ==
    \A i \in 1..Len(store) : \A j \in 1..Len(store) :
        (/\ store[i][2] = "has_sql"
         /\ store[j][2] = "has_sql"
         /\ store[i][3] # store[j][3])
        => store[i][1] # store[j][1]

\* what the code does: within one process a text always gets the same key
C17_SameTextSameKey ==
    \A i \in 1..Len(store) : \A j \in 1..Len(store) :
        (/\ store[i][2] = "has_sql"
         /\ store[j][2] = "has_sql"
         /\ store[i][3] = store[j][3])
        => store[i][1] = store[j][1]
\* the writers whose record() call has started
Started == {w \in Writers : pending[w] # NoCall}

\* the store after the calls of the writers in `order` ran one after another
RECURSIVE RunInOrder(_, _)
RunInOrder(g, order) ==
    IF order = <<>> THEN g
    ELSE LET c == pending[Head(order)].call
         IN  RunInOrder(IF parse(c.query) = <<>> THEN g ELSE StoreAfterRecord(g, c, 0),
                        Tail(order))

Orders == {<<>>, <<"w1">>, <<"w2">>, <<"w1", "w2">>, <<"w2", "w1">>}

NoTimestamps(g) == SelectSeq(g, LAMBDA t : t[2] # "timestamp")

\* the same triples, each as many times
SameMultiset(a, b) ==
    /\ Len(a) = Len(b)
    /\ \A t \in Range(a) \cup Range(b) :
          Cardinality({i \in 1..Len(a) : a[i] = t}) = Cardinality({i \in 1..Len(b) : b[i] = t})

\* C18: once the record() calls that ran concurrently, their appends
\* interleaved, have all ended, the store holds the same multiset of triples
\* (timestamps aside) as after the same calls run one after another, in any
\* order.
C18_InterleavingKeepsMultiset ==
    ~InProgress =>
        \A order \in {o \in Orders : Range(o) = Started /\ Len(o) = Cardinality(Started)} :
            SameMultiset(NoTimestamps(store), NoTimestamps(RunInOrder(<<>>, order)))

C18_Witness ==
    /\ ~InProgress
    /\ Started = Writers
    /\ Len(recorded) = 2
    /\ recorded[1] # recorded[2]
    /\ store[1][2] = "has_sql"
    /\ store[2][2] = "has_sql"
    /\ store[Len(store) - 1][2] = "performance_class"
    /\ store # RunInOrder(<<>>, <<"w1", "w2">>)
    /\ store # RunInOrder(<<>>, <<"w2", "w1">>)

\* C19: insights() returns the number of has_sql triples as
\* total_queries_analyzed and the number of distinct uses_table objects as
\* unique_tables; on the empty store 0 and an empty most_used_tables.
C19_InsightsTotals ==
    op = "insights" =>
        /\ ret.total_queries_analyzed
               = Cardinality({i \in 1..Len(store) : store[i][2] = "has_sql"})
        /\ ret.unique_tables
               = Cardinality({store[i][3] : i \in {j \in 1..Len(store) : store[j][2] = "uses_table"}})
        /\ store = <<>> =>
               (ret.total_queries_analyzed = 0 /\ DOMAIN ret.most_used_tables = {})

C19_Witness ==
    /\ op = "insights"
    /\ Len(recorded) = 3
    /\ recorded[1].query = recorded[3].query
    /\ ret.total_queries_analyzed = 3
    /\ ret.unique_tables = 2
    /\ DOMAIN ret.most_used_tables = {"users", "orders"}
\* C21: a record() call on the service of one workspace leaves what suggest()
\* and insights() return on the service of any other workspace unchanged.
C21_WorkspacesIsolated ==
    [][op' = "record" =>
         \A w \in WorkspaceIds \ {arg'.workspace_id} :
            /\ \A p \in WorkspacePartials :
                  get_intelligent_suggestions(graphs'[kg(w)], p)
                      = get_intelligent_suggestions(graphs[kg(w)], p)
            /\ get_workspace_insights(graphs'[kg(w)])
                  = get_workspace_insights(graphs[kg(w)])]_vars

C21_Witness ==
    /\ op = "suggest"
    /\ arg.workspace_id = "development"
    /\ ret = <<>>
    /\ graphs["development"] = <<>>
    /\ get_intelligent_suggestions(graphs["production"], arg.partial_query) # <<>>
\* how many times triple t is among the triples the last operation appended
TimesAppended(t) == Cardinality({i \in 1..Len(Appended) : Appended[i] = t})

\* C22: a record() call whose analysis has n distinct tables appends exactly
\* n*(n-1) co_occurs_with triples, one in each direction for every pair of
\* distinct tables and none from a table to itself, and exactly one
\* commonly_used_with triple per pattern occurrence and table.
C22_CoOccurrenceCount ==
    (op = "record" /\ ~raised) =>
        LET a == _analyze_query_structure(parse(arg.query)[1])
            n == Cardinality(a.tables)
            co == SelectSeq(Appended, LAMBDA t : t[2] = "co_occurs_with")
            cuw == SelectSeq(Appended, LAMBDA t : t[2] = "commonly_used_with")
        IN  /\ Len(co) = n * (n - 1)
            /\ \A t1 \in a.tables : \A t2 \in a.tables :
                  TimesAppended(<<t1, "co_occurs_with", t2>>) = (IF t1 = t2 THEN 0 ELSE 1)
            /\ \A i \in 1..Len(co) : co[i][1] # co[i][3]
            /\ Len(cuw) = Len(a.patterns) * n
            /\ \A p \in Range(a.patterns) : \A t \in a.tables :
                  TimesAppended(<<p, "commonly_used_with", t>>)
                      = Cardinality({k \in 1..Len(a.patterns) : a.patterns[k] = p})

C22_Witness ==
    /\ op = "record"
    /\ arg.query = TxWindowOrdered
    /\ before > 0
    /\ Len(SelectSeq(Appended, LAMBDA t : t[2] = "co_occurs_with")) = 6
    /\ TimesAppended(<<"ORDER_BY_PATTERN", "commonly_used_with", "users">>) = 2
\* the pairs <<x, q>> of the used_by_query triples of the store
UsedByPairs ==
    {<<store[i][1], store[i][3]>> : i \in {j \in 1..Len(store) : store[j][2] = "used_by_query"}}

\* C23: between record() calls, for every triple (q, uses_table, x) and
\* (q, uses_column, x) of the store, the store holds (x, used_by_query, q).
C23_ReverseEdgesPresent ==
    LET used == UsedByPairs
    IN  \A i \in 1..Len(store) :
            store[i][2] \in {"uses_table", "uses_column"}
                => <<store[i][3], store[i][1]>> \in used

C23_Witness ==
    /\ op = "record"
    /\ Len(recorded) = 2
    /\ recorded[1].query # recorded[2].query
    /\ \A k \in 1..2 :
          /\ <<QueryId(recorded[k].query), "uses_column", "orders">> \in Range(store)
          /\ <<"orders", QueryId(recorded[k].query)>> \in UsedByPairs
    /\ QueryId(recorded[1].query) # QueryId(recorded[2].query)
\* the entries of category table among the generators' outputs for the
\* partial query: the output of the related-tables generator
TableEntries ==
    SelectSeq(AllSuggestions(store, arg.partial_query), LAMBDA x : x.type = "table")

\* C24: the related-tables generator emits at most 3 suggestions per table of
\* the partial query, none for a table the partial query references, none at
\* all when it references no table; each is of category table, reads JOIN t
\* and has confidence 0.8.
C24_RelatedTablesBounded ==
    op = "suggest" =>
        LET current == CurrentAnalysis.tables
            out == TableEntries
        IN  /\ current = {} => out = <<>>
            /\ \A k \in 1..Len(out) :
                  /\ out[k].confidence = 8
                  /\ \E t \in TableNames \ current : out[k].suggestion = "JOIN " \o t
                  /\ \E a \in current : out[k].reason = "Frequently used with " \o a
            /\ \A a \in current :
                  Cardinality({k \in 1..Len(out) :
                      out[k].reason = "Frequently used with " \o a}) <= 3

C24_Witness ==
    /\ op = "suggest"
    /\ arg.partial_query = TxUsers
    /\ Len(TableEntries) = 3
    /\ Cardinality(Range(get_relations(store, "users", "co_occurs_with")) \ {"users"}) > 3
    /\ \A k \in 1..3 : ret[k] = TableEntries[k]
\* C25: once the answers to all started live-analysis requests have arrived,
\* in any order, liveAnalysis holds the result of the request started last
\* (when that request succeeded), never the result of an older one.
C25_LatestRequestWins ==
    LET n == Len(workbench.started)
    IN  (/\ n > 0
         /\ \A i \in 1..n : workbench.responses[i] # "pending"
         /\ workbench.responses[n] = "ok")
        => workbench.liveAnalysis = analyzeSQL(workbench.started[n])

\* what the code does: liveAnalysis is the result of some request that
\* succeeded, or still the initial value when none did
C25_SomeAnsweredRequest ==
    \/ /\ workbench.liveAnalysis = NoValue
       /\ \A i \in 1..Len(workbench.responses) : workbench.responses[i] # "ok"
    \/ \E i \in 1..Len(workbench.started) :
          /\ workbench.responses[i] = "ok"
          /\ workbench.liveAnalysis = analyzeSQL(workbench.started[i])
CountOf(predicate) == Cardinality({i \in 1..Len(store) : store[i][2] = predicate})

\* C27: whenever no record() call is in progress, the number of has_sql
\* triples equals the number of performance_class triples and the number of
\* completed record() calls, and insights() reports total_queries_analyzed
\* equal to fast + medium + slow.
C27_CountsAgree ==
    ~InProgress =>
        /\ CountOf("has_sql") = CountOf("performance_class")
        /\ CountOf("has_sql") = Len(recorded)
        /\ op = "insights" =>
              ret.total_queries_analyzed
                = ret.performance_distribution.fast + ret.performance_distribution.medium
                    + ret.performance_distribution.slow

\* insights() after two record() calls ran to their end, one of them fast
C27_Witness ==
    /\ ~InProgress
    /\ op = "insights"
    /\ Len(recorded) = 2
    /\ ret.total_queries_analyzed = 2
    /\ ret.performance_distribution.fast = 1
\* the texts of the completed record() calls, and how often each was recorded
RecordedTexts == {recorded[i].query : i \in 1..Len(recorded)}
TimesRecorded(q) == Cardinality({i \in 1..Len(recorded) : recorded[i].query = q})

\* the number of triples of the store with the subject and the predicate
CountAt(subject, predicate) ==
    Cardinality({i \in 1..Len(store) : store[i][1] = subject /\ store[i][2] = predicate})

\* C28: record() does not deduplicate: after k completed record() calls with
\* the same query text the key of that text carries k has_sql triples and k
\* performance_class triples, and insights() counts the query k times.
C28_KeyCarriesOneSetPerCall ==
    ~InProgress =>
        /\ \A q \in RecordedTexts :
              /\ CountAt(QueryId(q), "has_sql") = TimesRecorded(q)
              /\ CountAt(QueryId(q), "performance_class") = TimesRecorded(q)
        /\ op = "insights" => ret.total_queries_analyzed = Len(recorded)

\* what the code does: every completed call appends its own has_sql and
\* performance_class triple, so the key of a text carries one of each for
\* every completed call whose text has that key, texts that share it included
C28_NoDeduplication ==
    ~InProgress =>
        /\ \A q \in RecordedTexts :
              LET sharing == {i \in 1..Len(recorded) : QueryId(recorded[i].query) = QueryId(q)}
              IN  /\ Cardinality({i \in 1..Len(store) : store[i] = <<QueryId(q), "has_sql", q>>})
                        = TimesRecorded(q)
                  /\ CountAt(QueryId(q), "has_sql") = Cardinality(sharing)
                  /\ \A class \in {"FAST", "MEDIUM", "SLOW"} :
                        Cardinality({i \in 1..Len(store) :
                                        store[i] = <<QueryId(q), "performance_class", class>>})
                          = Cardinality({i \in sharing :
                                PerformanceClass(recorded[i].execution_time) = class})
        /\ op = "insights" => ret.total_queries_analyzed = Len(recorded)
C30_ScoreAtLeastBase ==
    op = "analyze" =>
        /\ ret.complexity_score >= BaseScore(ret.type)
        /\ ret.complexity_score >= 0

\* what the code does: the subquery term is -5 for a text without SELECT, so
\* the score is at least the base score less 5, and at least the base score
\* when the text contains SELECT
C30_ScoreAtLeastBaseLessFive ==
    op = "analyze" =>
        LET query_str == UpperStr(parse(arg.text)[1])
        IN  /\ ret.complexity_score >= BaseScore(ret.type) - 5
            /\ StrIn("SELECT", query_str) => ret.complexity_score >= BaseScore(ret.type)

====
